---- MODULE Spec2Model ----
(***************************************************************************)
(* The EtherNet/IP simulator of cpppo (server/enip/main.py): main()'s tag  *)
(* creation, the per-connection thread enip_srv, and the web API's         *)
(* api_request acting on the shared options / connections / tags.          *)
(***************************************************************************)
EXTENDS Integers, Sequences, FiniteSets, TLC

\* ------------------------------------------------------------------ bounds
\* Bytes a peer sends over the life of one connection.
MaxBytes == 5
\* Largest chunk one network.recv returns.
MaxChunk == 2
\* Length of one request frame (header symbol plus payload symbols).
FrameLen == 2
\* Web API requests issued during a run.
MaxApi == 1
\* Tag specifications on the command line.
MaxTags == 2
\* Frames a peer sends when frames are followed one by one.
MaxFrames == 2
\* wake-ups of the thread on delay_range
MaxWakes == 2

\* ------------------------------------------------------------ value spaces
\* The peers that connect: all of them, and the one the byte-level
\* specifications follow.
AllConns == {"c1", "c2"}
Conns == {"c1"}

None == <<"None">>

\* addr as enip_srv receives it: (ip, port), the ip as its printed tokens.
addr(c) == [ip |-> <<"127", ".", "0", ".", "0", ".", "1">>,
            port |-> IF c = "c1" THEN 5001 ELSE 5002]

Symbols == {"ok", "bad"}

RECURSIVE SeqsUpTo(_, _)
SeqsUpTo(S, n) ==
    IF n = 0 THEN {<<>>}
    ELSE LET shorter == SeqsUpTo(S, n - 1)
         IN  shorter \cup {Append(s, x) : s \in {t \in shorter : Len(t) = n - 1}, x \in S}

Chunks == SeqsUpTo(Symbols, MaxChunk) \ {<<>>}

Min(a, b) == IF a < b THEN a ELSE b

\* Texts the web API receives as <value>; NoValue is an absent path segment.
NoValue == "<none>"
Values == {NoValue, "1", "-1"}

\* No frame: data has neither a request nor a response of known content.
NoFrame == [command |-> "none"]

\* No Write Tag has succeeded yet.
NoWrite == [elements |-> 0]

VARIABLES
    \* main()
    args, ti, mainpc, tags, options,
    \* the shared connections dotdict: key -> the connection whose stats it holds
    connections,
    \* enip_srv, per connection
    pc, stats, buf, sourceSent, pos, seen, hasRequest, msg, eofRead, eof, seconds,
    \* the socket: bytes on the way in, peer's close, our close, replies sent
    wire, peerBytes, peerClosed, sockClosed, out,
    \* web API requests left
    apiLeft,
    \* the frame of the turn: data.request and data.response; the processor's
    \* session handles; the last Write Tag that succeeded
    request, response, session, nextHandle, lastWrite,
    \* the timeout of the session's last network.recv, in milliseconds; the
    \* thread on delay_range and what each of its wake-ups did
    timeout, mutator, woke,
    \* history
    raised, nparsed, ended, nEmpty, killed, eofAt, sendFailed, slept

mainVars == <<args, ti, mainpc, tags>>
srvVars  == <<pc, stats, buf, sourceSent, pos, seen, hasRequest, msg, eofRead, eof, seconds>>
sockVars == <<wire, peerBytes, peerClosed, sockClosed, out>>
histVars == <<raised, nparsed, ended, nEmpty, killed, eofAt, sendFailed, slept>>
cipVars  == <<request, response, session, nextHandle, lastWrite>>
auxVars  == <<timeout, mutator, woke>>
vars == <<mainVars, options, connections, srvVars, sockVars, apiLeft, histVars, cipVars,
          auxVars>>

\* ------------------------------------------------------------------ main()
\* First index of token x in s, 0 when absent ('x in s', s.split(x, 1)).
RECURSIVE IndexOf(_, _, _)
IndexOf(s, x, i) ==
    IF i > Len(s) THEN 0 ELSE IF s[i] = x THEN i ELSE IndexOf(s, x, i + 1)

Before(s, x) == SubSeq(s, 1, IndexOf(s, x, 1) - 1)
After(s, x)  == SubSeq(s, IndexOf(s, x, 1) + 1, Len(s))
Has(s, x)    == IndexOf(s, x, 1) > 0

\* str.upper() on the tokens the command line can hold.
Upper(s) == [i \in 1..Len(s) |->
                CASE s[i] = "int"  -> "INT"
                  [] s[i] = "dint" -> "DINT"
                  [] s[i] = "sint" -> "SINT"
                  [] OTHER         -> s[i]]

typenames == {<<"INT">>, <<"DINT">>, <<"SINT">>}

\* int( tag_size ): the number, or failure.
IntTexts == {<<"-1">>, <<"0">>, <<"1">>, <<"2">>, <<"3">>}
IntOf(s) == CASE s = <<"-1">> -> -1
              [] s = <<"0">>  -> 0
              [] s = <<"1">>  -> 1
              [] s = <<"2">>  -> 2
              [] s = <<"3">>  -> 3

\* The loop body of main() for one tag text t: the parsed (name, type, size),
\* or the assertion that fails.
ParseTag(t) ==
    LET named    == Has(t, "=")
        tag_name == IF named THEN Before(t, "=") ELSE t
        rest0    == IF named THEN After(t, "=") ELSE <<>>
        type0    == IF rest0 # <<>> THEN rest0 ELSE <<"INT">>
        sized    == Has(type0, "[")
        type1    == IF sized THEN Before(type0, "[") ELSE type0
        rest1    == IF sized THEN After(type0, "[") ELSE <<>>
        closed   == Has(rest1, "]")
        size0    == IF sized /\ closed THEN Before(rest1, "]") ELSE <<"1">>
        rest2    == IF sized /\ closed THEN After(rest1, "]") ELSE <<>>
        tag_type == Upper(type1)
    IN  IF sized /\ ~closed THEN [ok |-> FALSE, why |-> "mis-matched [...]"]
        ELSE IF rest2 # <<>> THEN [ok |-> FALSE, why |-> "expected tag=<type>[<size>]"]
        ELSE IF tag_type \notin typenames THEN [ok |-> FALSE, why |-> "Invalid tag type"]
        ELSE IF size0 \notin IntTexts THEN [ok |-> FALSE, why |-> "Invalid tag size"]
        ELSE [ok |-> TRUE, name |-> tag_name, type |-> tag_type[1], size |-> IntOf(size0)]

\* device.Attribute( tag_name, type, default=( 0 if size == 1 else [0]*size ))
Attribute(name, type, size) ==
    [name |-> name, type |-> type, scalar |-> (size = 1),
     value |-> IF size = 1 THEN <<0>> ELSE [i \in 1..size |-> 0]]

\* tags[tag_name] = dotdict(); .attribute = ...; .error = 0x00
MakeTag(tgs, p) ==
    [n \in DOMAIN tgs \cup {p.name} |->
        IF n = p.name
        THEN [attribute |-> Attribute(p.name, p.type, p.size), error |-> 0]
        ELSE tgs[n]]

\* One iteration of 'for t in args.tags': a tag is created, or main() dies on
\* the failed assertion.
CreateTag ==
    /\ mainpc = "tags"
    /\ ti <= Len(args)
    /\ LET p == ParseTag(args[ti])
       IN  IF p.ok
           THEN /\ tags' = MakeTag(tags, p)
                /\ ti' = ti + 1
                /\ mainpc' = "tags"
           ELSE /\ mainpc' = "failed"
                /\ UNCHANGED <<tags, ti>>
    /\ UNCHANGED <<auxVars, cipVars, args, options, connections, srvVars, sockVars, apiLeft, histVars>>

\* All tags created: main() hands over to network.server_main.
StartServer ==
    /\ mainpc = "tags"
    /\ ti > Len(args)
    /\ mainpc' = "serving"
    /\ UNCHANGED <<auxVars, cipVars, args, ti, tags, options, connections, srvVars, sockVars, apiLeft,
                   histVars>>

\* The characters of the texts a delay is given as, on the command line or
\* through the web API.
Chars(text) ==
    CASE text = "0"    -> <<"0">>
      [] text = "1"    -> <<"1">>
      [] text = "-1"   -> <<"-", "1">>
      [] text = "0-2"  -> <<"0", "-", "2">>
      [] text = "2-1"  -> <<"2", "-", "1">>
      [] text = "x-1"  -> <<"x", "-", "1">>
      [] text = "-1-1" -> <<"-", "1", "-", "1">>
      [] OTHER         -> <<text>>

\* s.split( x )
RECURSIVE Split(_, _)
Split(s, x) ==
    IF Has(s, x) THEN <<Before(s, x)>> \o Split(After(s, x), x) ELSE <<s>>

\* float( s ) of the numbers these texts hold; anything else raises.
FloatTexts == {<<"0">>, <<"1">>, <<"2">>, <<"-", "1">>}
FloatOf(s) == CASE s = <<"0">> -> 0 [] s = <<"1">> -> 1 [] s = <<"2">> -> 2
                [] s = <<"-", "1">> -> -1

\* lo,hi = map( float, range.split( '-' )): exactly two numbers, or an
\* exception.
RangeOk(range) ==
    LET parts == Split(Chars(range[1]), "-")
    IN  Len(parts) = 2 /\ parts[1] \in FloatTexts /\ parts[2] \in FloatTexts

Lo(range) == FloatOf(Split(Chars(range[1]), "-")[1])
Hi(range) == FloatOf(Split(Chars(range[1]), "-")[2])

\* Mutant: the value is drawn from above the range.
uniformAbove(lo, hi) == {IF lo < hi THEN hi + 1 ELSE lo + 1}

\* random.uniform( lo, hi ): lo + (hi-lo) * random(), on either side of lo.
uniform(lo, hi) == IF lo <= hi THEN lo..hi ELSE hi..lo

\* The delays a command line may give.
DelayTexts == {"0", "1", "-1", "x", "0-2", "2-1", "x-1", "-1-1"}

\* options.delay of --delay <text>: a number becomes the value; a text with
\* a '-' becomes the range, with the value 0.0 and the thread on delay_range
\* started (whose own assertion asks the same of the same text); anything
\* else fails the assertion.
MainDelay(text) ==
    /\ mainpc = "delay"
    /\ IF Chars(text) \in FloatTexts
       THEN /\ options' = [options EXCEPT ![<<"delay">>] = [value |-> FloatOf(Chars(text))]]
            /\ mainpc' = "tags"
            /\ UNCHANGED mutator
       ELSE IF Has(Chars(text), "-")
       THEN /\ options' = [options EXCEPT ![<<"delay">>] = [range |-> <<text>>, value |-> 0]]
            /\ mutator' = TRUE
            /\ mainpc' = "tags"
       ELSE /\ mainpc' = "failed"
            /\ UNCHANGED <<options, mutator>>
    /\ UNCHANGED <<timeout, woke, cipVars, args, ti, tags, connections, srvVars, sockVars,
                   apiLeft, histVars>>

\* Mutant: an exception in the loop of delay_range ends the thread.
WakeDies ==
    /\ mutator
    /\ mainpc \in {"tags", "serving"}
    /\ Len(woke) < MaxWakes
    /\ LET range == options[<<"delay">>].range
       IN  IF RangeOk(range)
           THEN /\ \E v \in uniform(Lo(range), Hi(range)) :
                      options' = [options EXCEPT ![<<"delay">>].value = v]
                /\ woke' = Append(woke, [range |-> range, did |-> "set"])
                /\ UNCHANGED mutator
           ELSE /\ woke' = Append(woke, [range |-> range, did |-> "failed"])
                /\ mutator' = FALSE
                /\ UNCHANGED options
    /\ UNCHANGED <<timeout, cipVars, mainVars, connections, srvVars, sockVars, apiLeft,
                   histVars>>

\* One turn of the loop of delay_range, after its sleep: the range is read
\* from options.delay as it is now, and the value is set from it; when that
\* raises, the exception is logged and the loop goes on.
Wake ==
    /\ mutator
    /\ mainpc \in {"tags", "serving"}
    /\ Len(woke) < MaxWakes
    /\ LET range == options[<<"delay">>].range
       IN  IF RangeOk(range)
           THEN /\ \E v \in uniform(Lo(range), Hi(range)) :
                      options' = [options EXCEPT ![<<"delay">>].value = v]
                /\ woke' = Append(woke, [range |-> range, did |-> "set"])
           ELSE /\ woke' = Append(woke, [range |-> range, did |-> "failed"])
                /\ UNCHANGED options
    /\ UNCHANGED <<timeout, mutator, cipVars, mainVars, connections, srvVars, sockVars,
                   apiLeft, histVars>>

\* The tag texts a command line is drawn from.
TagTexts ==
    { <<"A">>,
      <<"A", "=", "INT">>,
      <<"A", "=", "dint", "[", "2", "]">>,
      <<"B", "=", "SINT", "[", "1", "]">>,
      <<"B", "=", "INT", "[", "0", "]">>,
      <<"B", "=", "INT", "[", "-1", "]">>,
      <<"A", "=", "REAL">>,
      <<"A", "=", "INT", "[", "2">>,
      <<"A", "=", "INT", "[", "x", "]">>,
      <<"B", "=", "INT", "[", "2", "]", "x">> }

RECURSIVE TagsAfter(_, _, _)
TagsAfter(tgs, a, i) ==
    IF i > Len(a) THEN tgs ELSE TagsAfter(MakeTag(tgs, ParseTag(a[i])), a, i + 1)

DefaultArgs == << <<"A", "=", "INT">> >>

\* -------------------------------------------------------------- dotdict use
SetField(d, f, v) == [g \in DOMAIN d \cup {f} |-> IF g = f THEN v ELSE d[g]]

Put(m, k, v) == [j \in DOMAIN m \cup {k} |-> IF j = k THEN v ELSE m[j]]
Pop(m, k)    == [j \in DOMAIN m \ {k} |-> m[j]]

\* ( "%s_%d" % addr ).replace( '.', '_' )
connkey(a) ==
    LET text == a.ip \o <<"_", ToString(a.port)>>
    IN  [i \in 1..Len(text) |-> IF text[i] = "." THEN "_" ELSE text[i]]

\* ------------------------------------------------- parser.enip_machine.run
\* The symbol the source offers next, None at the end of what is buffered.
Peek(b) == IF b = <<>> THEN "None" ELSE Head(b)

\* The state 'empty' takes any symbol into the header; after that a symbol
\* the grammar does not accept stops the machine.
Acceptable(p, sym) == p = 0 \/ sym = "ok"

\* How many buffered symbols the machine consumes before it has a whole frame
\* or meets a symbol it has no transition on.
RECURSIVE Accepts(_, _)
Accepts(p, b) ==
    IF b = <<>> \/ p = FrameLen \/ ~Acceptable(p, Head(b)) THEN 0
    ELSE 1 + Accepts(p + 1, Tail(b))

\* What enip_process may do with a parsed request, and with empty data.
ProcessOutcomes(withRequest) ==
    IF withRequest THEN {"reply", "end", "raise", "noresp"} ELSE {"end"}

\* ------------------------------------------------------------ logix.process
\* An encapsulated request as the parser hands it over in data.request.
Frame(command, handle, context, service, tag, type, elements, data) ==
    [command |-> command, session_handle |-> handle, sender_context |-> context,
     service |-> service, tag |-> tag, type |-> type, elements |-> elements,
     data |-> data]

\* Width in bytes of the elements of a CIP type.
width(type) == CASE type = "SINT" -> 1 [] type = "INT" -> 2 [] type = "DINT" -> 4

\* Mutant: only the first element of a write is stored.
CipWriteTorn(value, data) ==
    [i \in 1..Len(value) |-> IF i = 1 /\ data # <<>> THEN data[1] ELSE value[i]]

\* Mutant: the elements are stored one place further on.
CipWriteShifted(value, data) ==
    [i \in 1..Len(value) |-> IF i >= 2 /\ i - 1 <= Len(data) THEN data[i - 1] ELSE value[i]]

\* Write Tag in place: the first elements of the buffer become the data.
CipWrite(value, data) ==
    [i \in 1..Len(value) |-> IF i <= Len(data) THEN data[i] ELSE value[i]]

\* Mutant: the status armed in tags[name].error is not looked at.
CipDispatchUnarmed(rq) ==
    IF rq.tag \notin DOMAIN tags
    THEN [status |-> 4, type |-> "", data |-> <<>>, wrote |-> FALSE]
    ELSE LET att == tags[rq.tag].attribute
             err == tags[rq.tag].error
             body == Len(rq.data) * width(rq.type)
             room == rq.elements * width(att.type)
         IN  IF rq.service = "read"
             THEN IF rq.elements > Len(att.value)
                  THEN [status |-> 5, type |-> "", data |-> <<>>, wrote |-> FALSE]
                  ELSE [status |-> 0, type |-> att.type,
                        data |-> SubSeq(att.value, 1, rq.elements), wrote |-> FALSE]
             ELSE IF rq.service = "write"
             THEN IF body < room
                  THEN [status |-> 19, type |-> "", data |-> <<>>, wrote |-> FALSE]
                  ELSE IF body > room \/ rq.elements > Len(att.value)
                  THEN [status |-> 21, type |-> "", data |-> <<>>, wrote |-> FALSE]
                  ELSE [status |-> 0, type |-> "", data |-> <<>>, wrote |-> TRUE]
             ELSE [status |-> 8, type |-> "", data |-> <<>>, wrote |-> FALSE]

\* The service processor on one CIP request: the status, type code and data
\* of the reply, and the attribute's buffer afterwards. An unknown symbol is
\* status 0x04; a status armed in tags[name].error is returned as it is,
\* with nothing done; a read beyond the buffer is 0x05; a write whose body is
\* shorter or longer than its elements take in the attribute is 0x13 or 0x15.
CipDispatch(rq) ==
    IF rq.tag \notin DOMAIN tags
    THEN [status |-> 4, type |-> "", data |-> <<>>, wrote |-> FALSE]
    ELSE LET att == tags[rq.tag].attribute
             err == tags[rq.tag].error
             body == Len(rq.data) * width(rq.type)
             room == rq.elements * width(att.type)
         IN  IF err # 0
             THEN [status |-> err, type |-> "", data |-> <<>>, wrote |-> FALSE]
             ELSE IF rq.service = "read"
             THEN IF rq.elements > Len(att.value)
                  THEN [status |-> 5, type |-> "", data |-> <<>>, wrote |-> FALSE]
                  ELSE [status |-> 0, type |-> att.type,
                        data |-> SubSeq(att.value, 1, rq.elements), wrote |-> FALSE]
             ELSE IF rq.service = "write"
             THEN IF body < room
                  THEN [status |-> 19, type |-> "", data |-> <<>>, wrote |-> FALSE]
                  ELSE IF body > room \/ rq.elements > Len(att.value)
                  THEN [status |-> 21, type |-> "", data |-> <<>>, wrote |-> FALSE]
                  ELSE [status |-> 0, type |-> "", data |-> <<>>, wrote |-> TRUE]
             ELSE [status |-> 8, type |-> "", data |-> <<>>, wrote |-> FALSE]

\* Mutant: the reply is built with an empty sender_context.
ReplyNoContext(rq, handle, status, cip) ==
    [command |-> rq.command, session_handle |-> handle, status |-> status,
     sender_context |-> "", service |-> rq.service,
     cip_status |-> cip.status, type |-> cip.type, data |-> cip.data]

\* The reply frame: the request's command and sender_context, the session's
\* handle, the encapsulation status, and the CIP reply.
Reply(rq, handle, status, cip) ==
    [command |-> rq.command, session_handle |-> handle, status |-> status,
     sender_context |-> rq.sender_context, service |-> rq.service,
     cip_status |-> cip.status, type |-> cip.type, data |-> cip.data]

NoCip == [status |-> 0, type |-> "", data |-> <<>>, wrote |-> FALSE]

\* Mutant: every session is given the same handle.
AllocateSame(counter) == [handle |-> counter, next |-> counter]

\* A new session handle from the listener's counter, which starts at 1.
Allocate(counter) == [handle |-> counter, next |-> counter + 1]

\* enip_process( addr, data ) on the request of connection c: what it returns,
\* data.response, and the registry, the session handles and the record of the
\* last write as it leaves them.
\*   RegisterSession allocates the next handle and replies with it;
\*   UnRegisterSession returns False; SendRRData under the session's handle
\*   is dispatched; under any other handle, and any other command, is
\*   answered with encapsulation status 0x0001.
CipProcess(c) ==
    LET rq == request[c]
        same == [outcome |-> "reply", response |-> NoFrame, tags |-> tags,
                 session |-> session, nextHandle |-> nextHandle, lastWrite |-> lastWrite]
    IN  CASE rq.command = "RegisterSession" ->
               [same EXCEPT !.response = Reply(rq, Allocate(nextHandle).handle, 0, NoCip),
                            !.session = [session EXCEPT ![c] = Allocate(nextHandle).handle],
                            !.nextHandle = Allocate(nextHandle).next]
          [] rq.command = "UnRegisterSession" ->
               [same EXCEPT !.outcome = "end",
                            !.session = [session EXCEPT ![c] = 0]]
          [] rq.command = "SendRRData" /\ session[c] # 0 /\ rq.session_handle = session[c] ->
               LET cip == CipDispatch(rq)
               IN  [same EXCEPT
                      !.response = Reply(rq, session[c], 0, cip),
                      !.tags = IF cip.wrote
                               THEN [tags EXCEPT ![rq.tag].attribute.value = CipWrite(@, rq.data)]
                               ELSE tags,
                      !.lastWrite = IF cip.wrote
                                    THEN [elements |-> rq.elements, type |-> rq.type,
                                          data |-> rq.data, tag |-> rq.tag]
                                    ELSE lastWrite]
          [] OTHER ->
               [same EXCEPT !.response = Reply(rq, session[c], 1, NoCip)]

\* What the turn's call of enip_process does: on a frame of known content what
\* the processor does with it, on any other data one of ProcessOutcomes.
Processed(c) ==
    IF request[c] = NoFrame
    THEN [outcome |-> ProcessOutcomes(hasRequest[c]), response |-> NoFrame, tags |-> tags,
          session |-> session, nextHandle |-> nextHandle, lastWrite |-> lastWrite]
    ELSE [CipProcess(c) EXCEPT !.outcome = {CipProcess(c).outcome}]

\* ---------------------------------------------------------------- enip_srv
\* network.server_main accepts a peer and starts the thread on enip_srv.
Accept(c) ==
    /\ mainpc = "serving"
    /\ pc[c] = "idle"
    /\ pc' = [pc EXCEPT ![c] = "start"]
    /\ UNCHANGED <<auxVars, cipVars, mainVars, options, connections, stats, buf, sourceSent, pos, seen,
                   hasRequest, msg, eofRead, eof, seconds, sockVars, apiLeft, histVars>>

\* stats = dotdict(); connections[connkey] = stats
Register(c) ==
    /\ pc[c] = "start"
    /\ stats' = [stats EXCEPT ![c] = <<>>]
    /\ connections' = Put(connections, connkey(addr(c)), c)
    /\ pc' = [pc EXCEPT ![c] = "init"]
    /\ UNCHANGED <<auxVars, cipVars, mainVars, options, buf, sourceSent, pos, seen, hasRequest, msg,
                   eofRead, eof, seconds, sockVars, apiLeft, histVars>>

\* stats.requests = 0 ... stats.port = addr[1]
InitStats(c) ==
    /\ pc[c] = "init"
    /\ stats' = [stats EXCEPT ![c] =
                    [requests |-> 0, received |-> 0, eof |-> FALSE,
                     interface |-> addr(c).ip, port |-> addr(c).port]]
    /\ pc' = [pc EXCEPT ![c] = "loop"]
    /\ UNCHANGED <<auxVars, cipVars, mainVars, options, connections, buf, sourceSent, pos, seen, hasRequest,
                   msg, eofRead, eof, seconds, sockVars, apiLeft, histVars>>

\* while not stats.eof: data = dotdict(); source.forget(); start the machine
Loop(c) ==
    /\ pc[c] = "loop"
    /\ IF stats[c].eof
       THEN /\ pc' = [pc EXCEPT ![c] = "exit"]
            /\ UNCHANGED <<hasRequest, pos, seen, request, response>>
       ELSE /\ pc' = [pc EXCEPT ![c] = "parse"]
            /\ hasRequest' = [hasRequest EXCEPT ![c] = FALSE]
            /\ request' = [request EXCEPT ![c] = NoFrame]
            /\ response' = [response EXCEPT ![c] = NoFrame]
            /\ pos' = [pos EXCEPT ![c] = 0]
            /\ seen' = [seen EXCEPT ![c] = {}]
    /\ UNCHANGED <<auxVars, session, nextHandle, lastWrite, mainVars, options, connections, stats, buf,
                   sourceSent, msg, eofRead, eof, seconds, sockVars, apiLeft, histVars>>

\* The machine runs on what is buffered: it consumes what it accepts; with no
\* transition it yields None once for each (state, sent, peek) and stops when
\* it sees the same one again, in the terminal state 'empty' or with NonTerminal.
Parse(c) ==
    /\ pc[c] = "parse"
    /\ LET n == Accepts(pos[c], buf[c])
       IN  IF n > 0
           THEN /\ buf' = [buf EXCEPT ![c] = SubSeq(@, n + 1, Len(@))]
                /\ sourceSent' = [sourceSent EXCEPT ![c] = @ + n]
                /\ pos' = [pos EXCEPT ![c] = @ + n]
                /\ seen' = [seen EXCEPT ![c] = {}]
                /\ hasRequest' = [hasRequest EXCEPT ![c] = (pos[c] + n = FrameLen)]
                /\ pc' = [pc EXCEPT ![c] = IF pos[c] + n = FrameLen THEN "process" ELSE "parse"]
                /\ UNCHANGED msg
           ELSE IF Peek(buf[c]) \notin seen[c]
           THEN /\ seen' = [seen EXCEPT ![c] = @ \cup {Peek(buf[c])}]
                /\ msg' = [msg EXCEPT ![c] = None]
                /\ pc' = [pc EXCEPT ![c] = "refill"]
                /\ UNCHANGED <<buf, sourceSent, pos, hasRequest>>
           ELSE /\ pc' = [pc EXCEPT ![c] = IF pos[c] = 0 THEN "process" ELSE "fail"]
                /\ UNCHANGED <<buf, sourceSent, pos, seen, hasRequest, msg>>
    /\ UNCHANGED <<auxVars, cipVars, mainVars, options, connections, stats, eofRead, eof, seconds, sockVars,
                   apiLeft, histVars>>

\* network.recv( conn, timeout ): what has arrived, up to one chunk; b'' once
\* the peer has closed; None when the timeout passes.
recv(c) ==
    IF wire[c] # <<>> THEN SubSeq(wire[c], 1, Min(Len(wire[c]), MaxChunk))
    ELSE IF peerClosed[c] THEN <<>>
    ELSE None

\* Mutant: every read waits, whether or not input is buffered.
TimeoutAlways(b) == IF Peek(b) = "None" THEN 100 ELSE 100

\* timeout=.1 if source.peek() is None else 0, in milliseconds.
Timeout(b) == IF Peek(b) = "None" THEN 100 ELSE 0

\* Mutant: one refill takes everything that has arrived, not one chunk.
RefillAll(c) ==
    /\ pc[c] = "refill"
    /\ timeout' = [timeout EXCEPT ![c] = IF stats[c].eof THEN @ ELSE Timeout(buf[c])]
    /\ IF stats[c].eof
       THEN /\ pc' = [pc EXCEPT ![c] = "parse"]
            /\ UNCHANGED <<msg, stats, wire, eofAt>>
       ELSE LET m == IF wire[c] # <<>> THEN wire[c] ELSE recv(c)
            IN  IF m = None
                THEN /\ pc' = [pc EXCEPT ![c] = IF buf[c] # <<>> THEN "parse" ELSE "refill"]
                     /\ UNCHANGED <<msg, stats, wire, eofAt>>
                ELSE /\ msg' = [msg EXCEPT ![c] = m]
                     /\ stats' = [stats EXCEPT ![c].received = @ + Len(m)]
                     /\ wire' = [wire EXCEPT ![c] = SubSeq(@, Len(m) + 1, Len(@))]
                     /\ eofAt' = [eofAt EXCEPT ![c] =
                            IF m # <<>> \/ @.kind # "none" THEN @
                            ELSE [kind |-> IF pos[c] = 0 /\ buf[c] = <<>> THEN "clean" ELSE "mid",
                                  out |-> Len(out[c]), requests |-> nparsed[c],
                                  empties |-> nEmpty[c], reset |-> FALSE]]
                     /\ pc' = [pc EXCEPT ![c] = "eofread"]
    /\ UNCHANGED <<mutator, woke, cipVars, mainVars, options, connections, buf, sourceSent, pos, seen, hasRequest,
                   eofRead, eof, seconds, peerBytes, peerClosed, sockClosed, out, apiLeft,
                   raised, nparsed, ended, nEmpty, killed, sendFailed, slept>>

\* Mutant: with no input the inner loop goes round again even when input is
\* buffered.
RefillBlocks(c) ==
    /\ pc[c] = "refill"
    /\ timeout' = [timeout EXCEPT ![c] = IF stats[c].eof THEN @ ELSE Timeout(buf[c])]
    /\ IF stats[c].eof
       THEN /\ pc' = [pc EXCEPT ![c] = "parse"]
            /\ UNCHANGED <<msg, stats, wire, eofAt>>
       ELSE LET m == recv(c)
            IN  IF m = None
                THEN /\ pc' = [pc EXCEPT ![c] = "refill"]
                     /\ UNCHANGED <<msg, stats, wire, eofAt>>
                ELSE /\ msg' = [msg EXCEPT ![c] = m]
                     /\ stats' = [stats EXCEPT ![c].received = @ + Len(m)]
                     /\ wire' = [wire EXCEPT ![c] = SubSeq(@, Len(m) + 1, Len(@))]
                     /\ eofAt' = [eofAt EXCEPT ![c] =
                            IF m # <<>> \/ @.kind # "none" THEN @
                            ELSE [kind |-> IF pos[c] = 0 /\ buf[c] = <<>> THEN "clean" ELSE "mid",
                                  out |-> Len(out[c]), requests |-> nparsed[c],
                                  empties |-> nEmpty[c], reset |-> FALSE]]
                     /\ pc' = [pc EXCEPT ![c] = "eofread"]
    /\ UNCHANGED <<mutator, woke, cipVars, mainVars, options, connections, buf, sourceSent, pos, seen, hasRequest,
                   eofRead, eof, seconds, peerBytes, peerClosed, sockClosed, out, apiLeft,
                   raised, nparsed, ended, nEmpty, killed, sendFailed, slept>>

\* while msg is None and not stats.eof: msg = network.recv(...); on a message
\* count it, on None leave the loop only if input is buffered.
Refill(c) ==
    /\ pc[c] = "refill"
    /\ timeout' = [timeout EXCEPT ![c] = IF stats[c].eof THEN @ ELSE Timeout(buf[c])]
    /\ IF stats[c].eof
       THEN /\ pc' = [pc EXCEPT ![c] = "parse"]
            /\ UNCHANGED <<msg, stats, wire, eofAt>>
       ELSE LET m == recv(c)
            IN  IF m = None
                THEN /\ pc' = [pc EXCEPT ![c] = IF buf[c] # <<>> THEN "parse" ELSE "refill"]
                     /\ UNCHANGED <<msg, stats, wire, eofAt>>
                ELSE /\ msg' = [msg EXCEPT ![c] = m]
                     /\ stats' = [stats EXCEPT ![c].received = @ + Len(m)]
                     /\ wire' = [wire EXCEPT ![c] = SubSeq(@, Len(m) + 1, Len(@))]
                     /\ eofAt' = [eofAt EXCEPT ![c] =
                            IF m # <<>> \/ @.kind # "none" THEN @
                            ELSE [kind |-> IF pos[c] = 0 /\ buf[c] = <<>> THEN "clean" ELSE "mid",
                                  out |-> Len(out[c]), requests |-> nparsed[c],
                                  empties |-> nEmpty[c], reset |-> FALSE]]
                     /\ pc' = [pc EXCEPT ![c] = "eofread"]
    /\ UNCHANGED <<mutator, woke, cipVars, mainVars, options, connections, buf, sourceSent, pos, seen, hasRequest,
                   eofRead, eof, seconds, peerBytes, peerClosed, sockClosed, out, apiLeft,
                   raised, nparsed, ended, nEmpty, killed, sendFailed, slept>>

\* stats.eof = stats.eof or not len( msg ): the load of stats.eof ...
EofRead(c) ==
    /\ pc[c] = "eofread"
    /\ eofRead' = [eofRead EXCEPT ![c] = stats[c].eof]
    /\ pc' = [pc EXCEPT ![c] = "eofwrite"]
    /\ UNCHANGED <<auxVars, cipVars, mainVars, options, connections, stats, buf, sourceSent, pos, seen,
                   hasRequest, msg, eof, seconds, sockVars, apiLeft, histVars>>

\* ... and its store; source.chain( msg ); msg is not None ends the inner loop.
EofWrite(c) ==
    /\ pc[c] = "eofwrite"
    /\ stats' = [stats EXCEPT ![c].eof = eofRead[c] \/ Len(msg[c]) = 0]
    /\ buf' = [buf EXCEPT ![c] = @ \o msg[c]]
    /\ pc' = [pc EXCEPT ![c] = "parse"]
    /\ UNCHANGED <<auxVars, cipVars, mainVars, options, connections, sourceSent, pos, seen, hasRequest, msg,
                   eofRead, eof, seconds, sockVars, apiLeft, histVars>>

\* Mutant: the request counter is incremented without looking for a request.
ProcessCountsAll(c) ==
    /\ pc[c] = "process"
    /\ stats' = [stats EXCEPT ![c].requests = @ + 1]
    /\ nparsed' = [nparsed EXCEPT ![c] = @ + 1]
    /\ nEmpty' = [nEmpty EXCEPT ![c] = IF hasRequest[c] THEN @ ELSE @ + 1]
    /\ \E o \in Processed(c).outcome :
          CASE o = "reply" ->
                 /\ pc' = [pc EXCEPT ![c] = "delay"]
                 /\ UNCHANGED <<eof, ended>>
            [] o = "end" ->
                 /\ eof' = [eof EXCEPT ![c] = TRUE]
                 /\ ended' = [ended EXCEPT ![c] = IF hasRequest[c] /\ @ = 0 THEN nparsed[c] + 1 ELSE @]
                 /\ pc' = [pc EXCEPT ![c] = "loop"]
            [] OTHER ->
                 /\ pc' = [pc EXCEPT ![c] = "terminate"]
                 /\ UNCHANGED <<eof, ended>>
    /\ response' = [response EXCEPT ![c] = Processed(c).response]
    /\ tags' = Processed(c).tags
    /\ session' = Processed(c).session
    /\ nextHandle' = Processed(c).nextHandle
    /\ lastWrite' = Processed(c).lastWrite
    /\ UNCHANGED <<auxVars, request, args, ti, mainpc, options, connections, buf, sourceSent, pos, seen,
                   hasRequest, msg, eofRead, seconds, sockVars, apiLeft, raised, killed, eofAt,
                   sendFailed, slept>>

\* if 'request' in data: stats.requests += 1; then enip_process( addr, data ):
\* True with a response goes on to the reply, False sets the local 'eof', an
\* exception (or a missing response) goes to the handler that terminates.
Process(c) ==
    /\ pc[c] = "process"
    /\ stats' = [stats EXCEPT ![c].requests = IF hasRequest[c] THEN @ + 1 ELSE @]
    /\ nparsed' = [nparsed EXCEPT ![c] = IF hasRequest[c] THEN @ + 1 ELSE @]
    /\ nEmpty' = [nEmpty EXCEPT ![c] = IF hasRequest[c] THEN @ ELSE @ + 1]
    /\ \E o \in Processed(c).outcome :
          CASE o = "reply" ->
                 /\ pc' = [pc EXCEPT ![c] = "delay"]
                 /\ UNCHANGED <<eof, ended>>
            [] o = "end" ->
                 /\ eof' = [eof EXCEPT ![c] = TRUE]
                 /\ ended' = [ended EXCEPT ![c] = IF hasRequest[c] /\ @ = 0 THEN nparsed[c] + 1 ELSE @]
                 /\ pc' = [pc EXCEPT ![c] = "loop"]
            [] OTHER ->
                 /\ pc' = [pc EXCEPT ![c] = "terminate"]
                 /\ UNCHANGED <<eof, ended>>
    /\ response' = [response EXCEPT ![c] = Processed(c).response]
    /\ tags' = Processed(c).tags
    /\ session' = Processed(c).session
    /\ nextHandle' = Processed(c).nextHandle
    /\ lastWrite' = Processed(c).lastWrite
    /\ UNCHANGED <<auxVars, request, args, ti, mainpc, options, connections, buf, sourceSent, pos, seen,
                   hasRequest, msg, eofRead, seconds, sockVars, apiLeft, raised, killed, eofAt,
                   sendFailed, slept>>

\* Mutant: the handler raises again without telling the processor that the
\* session is over.
TerminateSkipped(c) ==
    /\ pc[c] = "terminate"
    /\ pc' = [pc EXCEPT ![c] = "fail"]
    /\ UNCHANGED <<auxVars, cipVars, mainVars, options, connections, stats, buf, sourceSent, pos, seen,
                   hasRequest, msg, eofRead, eof, seconds, sockVars, apiLeft, histVars>>

\* except: enip_process( addr, data=cpppo.dotdict() ); raise
Terminate(c) ==
    /\ pc[c] = "terminate"
    /\ nEmpty' = [nEmpty EXCEPT ![c] = @ + 1]
    /\ pc' = [pc EXCEPT ![c] = "fail"]
    /\ UNCHANGED <<auxVars, cipVars, mainVars, options, connections, stats, buf, sourceSent, pos, seen, hasRequest, msg, eofRead, eof, seconds, sockVars, apiLeft,
                   raised, nparsed, ended, killed, eofAt, sendFailed, slept>>

\* float( delay.value ) and time.sleep( seconds ): the time slept, or nothing
\* when sleep refuses the number.
Sleep(value) == IF value >= 0 THEN <<value>> ELSE <<>>

\* Mutant: no try/except around the sleep, so a refused number escapes to the
\* handler that terminates the session.
DelayUnguarded(c) ==
    /\ pc[c] = "delay"
    /\ seconds' = [seconds EXCEPT ![c] = options[<<"delay">>].value]
    /\ slept' = [slept EXCEPT ![c] = Sleep(options[<<"delay">>].value)]
    /\ pc' = [pc EXCEPT ![c] = IF options[<<"delay">>].value >= 0 THEN "send" ELSE "terminate"]
    /\ UNCHANGED <<auxVars, cipVars, mainVars, options, connections, stats, buf, sourceSent, pos, seen,
                   hasRequest, msg, eofRead, eof, sockVars, apiLeft, raised, nparsed,
                   ended, nEmpty, killed, eofAt, sendFailed>>

\* Mutant: the number of seconds is taken once, when the thread starts, and
\* never read again.
DelayStale(c) ==
    /\ pc[c] = "delay"
    /\ slept' = [slept EXCEPT ![c] = Sleep(seconds[c])]
    /\ pc' = [pc EXCEPT ![c] = "send"]
    /\ UNCHANGED <<auxVars, cipVars, mainVars, options, connections, stats, buf, sourceSent, pos, seen,
                   hasRequest, msg, eofRead, eof, seconds, sockVars, apiLeft, raised,
                   nparsed, ended, nEmpty, killed, eofAt, sendFailed>>

\* if delay: try: seconds = float( delay.value ); time.sleep( seconds )
\*            except Exception: log
Delay(c) ==
    /\ pc[c] = "delay"
    /\ seconds' = [seconds EXCEPT ![c] = options[<<"delay">>].value]
    /\ slept' = [slept EXCEPT ![c] = Sleep(options[<<"delay">>].value)]
    /\ pc' = [pc EXCEPT ![c] = "send"]
    /\ UNCHANGED <<auxVars, cipVars, mainVars, options, connections, stats, buf, sourceSent, pos, seen,
                   hasRequest, msg, eofRead, eof, sockVars, apiLeft, raised, nparsed,
                   ended, nEmpty, killed, eofAt, sendFailed>>

\* Mutant: the reply goes out twice.
SendTwice(c) ==
    /\ pc[c] = "send"
    /\ \/ /\ out' = [out EXCEPT ![c] =
                     Append(Append(@, [req |-> nparsed[c], seconds |-> seconds[c], slept |-> slept[c]]),
                            [req |-> nparsed[c], seconds |-> seconds[c], slept |-> slept[c]])]
          /\ UNCHANGED <<eof, sendFailed>>
       \/ /\ peerClosed[c]
          /\ eof' = [eof EXCEPT ![c] = TRUE]
          /\ sendFailed' = [sendFailed EXCEPT ![c] = TRUE]
          /\ UNCHANGED out
    /\ pc' = [pc EXCEPT ![c] = "loop"]
    /\ UNCHANGED <<auxVars, cipVars, mainVars, options, connections, stats, buf, sourceSent, pos, seen,
                   hasRequest, msg, eofRead, seconds, wire, peerBytes, peerClosed,
                   sockClosed, apiLeft, raised, nparsed, ended, nEmpty, killed, eofAt, slept>>

\* conn.send( rpy ); a socket.error sets the local 'eof'.
Send(c) ==
    /\ pc[c] = "send"
    /\ \/ /\ out' = [out EXCEPT ![c] = Append(@, [req |-> nparsed[c], seconds |-> seconds[c], slept |-> slept[c]])]
          /\ UNCHANGED <<eof, sendFailed>>
       \/ /\ peerClosed[c]
          /\ eof' = [eof EXCEPT ![c] = TRUE]
          /\ sendFailed' = [sendFailed EXCEPT ![c] = TRUE]
          /\ UNCHANGED out
    /\ pc' = [pc EXCEPT ![c] = "loop"]
    /\ UNCHANGED <<auxVars, cipVars, mainVars, options, connections, stats, buf, sourceSent, pos, seen,
                   hasRequest, msg, eofRead, seconds, wire, peerBytes, peerClosed,
                   sockClosed, apiLeft, raised, nparsed, ended, nEmpty, killed, eofAt, slept>>

\* Mutant: the loop is left without stats.processed being set.
ExitSkipsProcessed(c) ==
    /\ pc[c] = "exit"
    /\ pc' = [pc EXCEPT ![c] = "finally"]
    /\ UNCHANGED <<auxVars, cipVars, mainVars, options, connections, stats, buf, sourceSent, pos,
                   seen, hasRequest, msg, eofRead, eof, seconds, sockVars, apiLeft, histVars>>

\* The loop is left: stats.processed = source.sent
Exit(c) ==
    /\ pc[c] = "exit"
    /\ stats' = [stats EXCEPT ![c] = SetField(@, "processed", sourceSent[c])]
    /\ pc' = [pc EXCEPT ![c] = "finally"]
    /\ UNCHANGED <<auxVars, cipVars, mainVars, options, connections, buf, sourceSent, pos, seen, hasRequest,
                   msg, eofRead, eof, seconds, sockVars, apiLeft, histVars>>

\* Mutant: the handler logs the failure and does not raise it again.
FailSwallowed(c) ==
    /\ pc[c] = "fail"
    /\ stats' = [stats EXCEPT ![c] = SetField(@, "processed", sourceSent[c])]
    /\ buf' = [buf EXCEPT ![c] = <<>>]
    /\ sourceSent' = [sourceSent EXCEPT ![c] = @ + Len(buf[c])]
    /\ pc' = [pc EXCEPT ![c] = "finally"]
    /\ UNCHANGED <<auxVars, cipVars, mainVars, options, connections, pos, seen, hasRequest,
                   msg, eofRead, eof, seconds, sockVars, apiLeft, histVars>>

\* except: stats.processed = source.sent; the rest of the source is read out
\* for the log; raise
Fail(c) ==
    /\ pc[c] = "fail"
    /\ stats' = [stats EXCEPT ![c] = SetField(@, "processed", sourceSent[c])]
    /\ buf' = [buf EXCEPT ![c] = <<>>]
    /\ sourceSent' = [sourceSent EXCEPT ![c] = @ + Len(buf[c])]
    /\ raised' = [raised EXCEPT ![c] = TRUE]
    /\ pc' = [pc EXCEPT ![c] = "finally"]
    /\ UNCHANGED <<auxVars, cipVars, mainVars, options, connections, pos, seen, hasRequest,
                   msg, eofRead, eof, seconds, sockVars, apiLeft, nparsed, ended, nEmpty,
                   killed, eofAt, sendFailed, slept>>

\* Mutant: the finally block forgets to pop the connections entry.
FinallyKeepsEntry(c) ==
    /\ pc[c] = "finally"
    /\ pc' = [pc EXCEPT ![c] = "close"]
    /\ UNCHANGED <<auxVars, cipVars, mainVars, options, connections, stats, buf, sourceSent, pos, seen,
                   hasRequest, msg, eofRead, eof, seconds, sockVars, apiLeft, histVars>>

\* Mutant: the finally block empties the connections map.
FinallyClears(c) ==
    /\ pc[c] = "finally"
    /\ connections' = <<>>
    /\ pc' = [pc EXCEPT ![c] = "close"]
    /\ UNCHANGED <<auxVars, cipVars, mainVars, options, stats, buf, sourceSent, pos, seen,
                   hasRequest, msg, eofRead, eof, seconds, sockVars, apiLeft, histVars>>

\* finally: connections.pop( connkey, None )
Finally(c) ==
    /\ pc[c] = "finally"
    /\ connections' = Pop(connections, connkey(addr(c)))
    /\ pc' = [pc EXCEPT ![c] = "close"]
    /\ UNCHANGED <<auxVars, cipVars, mainVars, options, stats, buf, sourceSent, pos, seen, hasRequest, msg, eofRead, eof, seconds, sockVars, apiLeft, histVars>>

\* conn.close()
Close(c) ==
    /\ pc[c] = "close"
    /\ sockClosed' = [sockClosed EXCEPT ![c] = TRUE]
    /\ pc' = [pc EXCEPT ![c] = "done"]
    /\ UNCHANGED <<auxVars, cipVars, mainVars, options, connections, stats, buf, sourceSent, pos, seen, hasRequest, msg, eofRead, eof, seconds, wire, peerBytes,
                   peerClosed, out, apiLeft, histVars>>

\* ----------------------------------------------------------------- the peer
PeerSend(c, chunk) ==
    /\ pc[c] # "idle"
    /\ ~peerClosed[c]
    /\ ~sockClosed[c]
    /\ peerBytes[c] + Len(chunk) <= MaxBytes
    /\ wire' = [wire EXCEPT ![c] = @ \o chunk]
    /\ peerBytes' = [peerBytes EXCEPT ![c] = @ + Len(chunk)]
    /\ UNCHANGED <<auxVars, cipVars, mainVars, options, connections, srvVars, peerClosed, sockClosed, out,
                   apiLeft, histVars>>

PeerClose(c) ==
    /\ pc[c] # "idle"
    /\ ~peerClosed[c]
    /\ peerClosed' = [peerClosed EXCEPT ![c] = TRUE]
    /\ UNCHANGED <<auxVars, cipVars, mainVars, options, connections, srvVars, wire, peerBytes, sockClosed,
                   out, apiLeft, histVars>>

\* ------------------------------------------------- the peer, frame by frame
Contexts == {"x", "y"}

\* The frames a peer sends: it registers, reads and writes the tag A, whole and
\* in part, with the handle it was given; the first peer also asks for an
\* unknown tag, writes with the wrong type, and uses a handle that is not its
\* own. Each peer writes its own value.
PeerFrames(c) ==
    LET h == session[c]
        v == IF c = "c1" THEN 1 ELSE 2
        A == <<"A">>
    IN  {Frame("RegisterSession", 0, "x", "none", <<>>, "", 0, <<>>),
         Frame("SendRRData", h, "y", "read", A, "", 2, <<>>),
         Frame("SendRRData", h, "x", "write", A, "INT", 2, <<v, v>>)}
        \cup
        (IF c # "c1" THEN {}
         ELSE {Frame("SendRRData", h, "x", "read", A, "", 1, <<>>),
               Frame("SendRRData", h, "y", "write", A, "INT", 1, <<v>>),
               Frame("SendRRData", h, "y", "read", <<"Z">>, "", 1, <<>>),
               Frame("SendRRData", h, "y", "write", A, "DINT", 1, <<v>>),
               Frame("SendRRData", h + 1, "y", "read", A, "", 1, <<>>)})

\* A frame arrives whole and the machine parses it in one run: the bytes are
\* received, counted and consumed, and data.request holds the frame.
ParseFrame(c, frame) ==
    /\ pc[c] = "parse"
    /\ pos[c] = 0 /\ buf[c] = <<>> /\ wire[c] = <<>>
    /\ ~peerClosed[c] /\ ~stats[c].eof
    /\ nparsed[c] < MaxFrames
    /\ request' = [request EXCEPT ![c] = frame]
    /\ hasRequest' = [hasRequest EXCEPT ![c] = TRUE]
    /\ stats' = [stats EXCEPT ![c].received = @ + FrameLen]
    /\ peerBytes' = [peerBytes EXCEPT ![c] = @ + FrameLen]
    /\ sourceSent' = [sourceSent EXCEPT ![c] = @ + FrameLen]
    /\ pos' = [pos EXCEPT ![c] = FrameLen]
    /\ pc' = [pc EXCEPT ![c] = "process"]
    /\ UNCHANGED <<auxVars, response, session, nextHandle, lastWrite, mainVars, options, connections,
                   buf, seen, msg, eofRead, eof, seconds, wire, peerClosed, sockClosed, out,
                   apiLeft, histVars>>

\* ------------------------------------------------------------- api_request
Star == <<"*">>

\* Mutant: every name matches every pattern.
fnmatchAny(name, pattern) == pattern = pattern \/ name = name

\* fnmatch.fnmatch( name, pattern ) for the patterns requests use here: the
\* glob '*' and a literal name.
fnmatch(name, pattern) == pattern = Star \/ pattern = name

\* type( cur ) of each field the three dotdicts hold.
TypeOf(field) ==
    CASE field = "eof" -> "bool"
      [] field \in {"requests", "received", "processed", "port", "error"} -> "int"
      [] field = "value" -> "float"
      [] field \in {"interface", "range"} -> "str"
      [] OTHER -> "Attribute"

NumTexts == {"-1", "0", "1"}
NumOf(v) == CASE v = "-1" -> -1 [] v = "0" -> 0 [] v = "1" -> 1

\* cvt = typ( value ), with the TypeError branch taken only for bool: bool()
\* of any text is its non-emptiness and of None is False, so it never raises;
\* int() and float() raise on anything but a number; Attribute( value ) raises.
Coerce(typ, value) ==
    CASE typ = "bool" -> [ok |-> TRUE, val |-> value \notin {NoValue, ""}]
      [] typ \in {"int", "float"} ->
            IF value \in NumTexts THEN [ok |-> TRUE, val |-> NumOf(value)]
            ELSE [ok |-> FALSE]
      [] typ = "str" -> [ok |-> TRUE, val |-> IF value = NoValue THEN <<"None">> ELSE <<value>>]
      [] OTHER -> [ok |-> FALSE]

IsGet(command) == command \in {NoValue, "", "get", "GET"}

\* The command succeeds on this target: the field exists and the text coerces.
ApiOk(target, command, value) ==
    /\ command \in DOMAIN target
    /\ Coerce(TypeOf(command), value).ok

\* Mutant: a number that does not convert is stored as zero instead of failing.
ApiTargetZeroed(target, command, value) ==
    IF target = <<>> \/ IsGet(command) \/ command \notin DOMAIN target THEN target
    ELSE IF Coerce(TypeOf(command), value).ok
    THEN [target EXCEPT ![command] = Coerce(TypeOf(command), value).val]
    ELSE IF TypeOf(command) \in {"int", "float"} THEN [target EXCEPT ![command] = 0]
    ELSE target

\* Mutant: a field the target lacks is created with the text as its value.
ApiTargetCreates(target, command, value) ==
    IF target = <<>> \/ IsGet(command) THEN target
    ELSE IF command \notin DOMAIN target THEN SetField(target, command, <<value>>)
    ELSE IF ~ApiOk(target, command, value) THEN target
    ELSE [target EXCEPT ![command] = Coerce(TypeOf(command), value).val]

\* The target after the command: setattr( target, command, cvt ) when it
\* succeeds, unchanged otherwise; an empty (falsy) target is skipped.
ApiTarget(target, command, value) ==
    IF target = <<>> \/ IsGet(command) \/ ~ApiOk(target, command, value) THEN target
    ELSE [target EXCEPT ![command] = Coerce(TypeOf(command), value).val]

\* The connections a request's patterns select.
Selected(group, match) ==
    {c \in AllConns : /\ fnmatch(<<"connections">>, group)
                   /\ \E k \in DOMAIN connections : connections[k] = c /\ fnmatch(k, match)}

\* result, as one target leaves it: {} for a get, else { "success": ... }.
TargetResult(target, command, value) ==
    IF IsGet(command) THEN <<>>
    ELSE IF ApiOk(target, command, value) THEN <<"success", "True">>
    ELSE <<"success", "False">>

\* The place of a tag name in dir( tags ), which is sorted.
Rank(k) == IndexOf(<<"A", "B">>, k[1], 1)

\* content["command"] of the response: None when no target was found, else
\* the result of the last target the loops came to (options, connections,
\* tags, each in the order of its dir(), which for connections of one
\* interface is the order of their ports).
ApiResult(group, match, command, value) ==
    LET opts == {k \in DOMAIN options : /\ fnmatch(<<"options">>, group)
                                        /\ fnmatch(k, match)
                                        /\ options[k] # <<>>}
        cons == {c \in Selected(group, match) : stats[c] # <<>>}
        tgs  == {k \in DOMAIN tags : fnmatch(<<"tags">>, group) /\ fnmatch(k, match)}
    IN  IF tgs # {}
        THEN TargetResult(tags[CHOOSE k \in tgs : \A j \in tgs : Rank(j) <= Rank(k)],
                          command, value)
        ELSE IF cons # {}
        THEN TargetResult(stats[CHOOSE c \in cons :
                                   \A d \in cons : addr(d).port <= addr(c).port],
                          command, value)
        ELSE IF opts # {}
        THEN TargetResult(options[CHOOSE k \in opts : TRUE], command, value)
        ELSE None

\* The three dotdicts after the loops of one request have gone over them.
ApiOptions(group, match, command, value) ==
    [k \in DOMAIN options |->
        IF fnmatch(<<"options">>, group) /\ fnmatch(k, match)
        THEN ApiTarget(options[k], command, value) ELSE options[k]]

ApiStats(group, match, command, value) ==
    [c \in AllConns |->
        IF c \in Selected(group, match)
        THEN ApiTarget(stats[c], command, value) ELSE stats[c]]

ApiTags(group, match, command, value) ==
    [k \in DOMAIN tags |->
        IF fnmatch(<<"tags">>, group) /\ fnmatch(k, match)
        THEN ApiTarget(tags[k], command, value) ELSE tags[k]]

\* One request GET /api/<group>/<match>/<command>/<value>.
ApiRequest(group, match, command, value) ==
    /\ mainpc = "serving"
    /\ apiLeft > 0
    /\ apiLeft' = apiLeft - 1
    /\ options' = ApiOptions(group, match, command, value)
    /\ stats' = ApiStats(group, match, command, value)
    /\ tags' = ApiTags(group, match, command, value)
    /\ killed' = [c \in AllConns |->
                      IF /\ c \in Selected(group, match)
                         /\ stats[c] # <<>>
                         /\ command = "eof"
                         /\ ApiOk(stats[c], command, value)
                      THEN Coerce("bool", value).val ELSE killed[c]]
    /\ eofAt' = [c \in AllConns |->
                      IF /\ c \in Selected(group, match)
                         /\ stats[c] # <<>>
                         /\ command = "eof"
                         /\ ApiOk(stats[c], command, value)
                         /\ ~Coerce("bool", value).val
                         /\ eofAt[c].kind # "none"
                      THEN [eofAt[c] EXCEPT !.reset = TRUE] ELSE eofAt[c]]
    /\ UNCHANGED <<auxVars, cipVars, args, ti, mainpc, connections, pc, buf, sourceSent, pos, seen,
                   hasRequest, msg, eofRead, eof, seconds, sockVars, raised, nparsed,
                   ended, nEmpty, sendFailed, slept>>

Groups   == {Star, <<"connections">>}
Matches  == {Star} \cup {connkey(addr(c)) : c \in Conns}
Commands == {"get", "eof", "value"}

\* ------------------------------------------------------------ specification
SrvInitWith(opts) ==
    /\ options = opts
    /\ timeout = [c \in AllConns |-> 0]
    /\ connections = <<>>
    /\ pc = [c \in AllConns |-> "idle"]
    /\ stats = [c \in AllConns |-> <<>>]
    /\ buf = [c \in AllConns |-> <<>>]
    /\ sourceSent = [c \in AllConns |-> 0]
    /\ pos = [c \in AllConns |-> 0]
    /\ seen = [c \in AllConns |-> {}]
    /\ hasRequest = [c \in AllConns |-> FALSE]
    /\ msg = [c \in AllConns |-> None]
    /\ eofRead = [c \in AllConns |-> FALSE]
    /\ eof = [c \in AllConns |-> FALSE]
    /\ seconds = [c \in AllConns |-> 0]
    /\ wire = [c \in AllConns |-> <<>>]
    /\ peerBytes = [c \in AllConns |-> 0]
    /\ peerClosed = [c \in AllConns |-> FALSE]
    /\ sockClosed = [c \in AllConns |-> FALSE]
    /\ out = [c \in AllConns |-> <<>>]
    /\ raised = [c \in AllConns |-> FALSE]
    /\ nparsed = [c \in AllConns |-> 0]
    /\ ended = [c \in AllConns |-> 0]
    /\ nEmpty = [c \in AllConns |-> 0]
    /\ killed = [c \in AllConns |-> FALSE]
    /\ eofAt = [c \in AllConns |-> [kind |-> "none", out |-> 0, requests |-> 0, empties |-> 0, reset |-> FALSE]]
    /\ sendFailed = [c \in AllConns |-> FALSE]
    /\ slept = [c \in AllConns |-> <<>>]
    /\ request = [c \in AllConns |-> NoFrame]
    /\ response = [c \in AllConns |-> NoFrame]
    /\ session = [c \in AllConns |-> 0]
    /\ nextHandle = 1
    /\ lastWrite = NoWrite

\* The threads to come, under the options of the delay 0.0: no mutator.
SrvInit ==
    /\ SrvInitWith([k \in {<<"delay">>} |-> [value |-> 0]])
    /\ mutator = FALSE
    /\ woke = <<>>

\* The server after main() has created the tags of the default command line.
Init ==
    /\ args = DefaultArgs
    /\ ti = Len(DefaultArgs) + 1
    /\ mainpc = "serving"
    /\ tags = TagsAfter(<<>>, DefaultArgs, 1)
    /\ apiLeft = MaxApi
    /\ SrvInit

Next ==
    \/ \E c \in Conns : Accept(c)
    \/ \E c \in Conns : Register(c)
    \/ \E c \in Conns : InitStats(c)
    \/ \E c \in Conns : Loop(c)
    \/ \E c \in Conns : Parse(c)
    \/ \E c \in Conns : Refill(c)
    \/ \E c \in Conns : EofRead(c)
    \/ \E c \in Conns : EofWrite(c)
    \/ \E c \in Conns : Process(c)
    \/ \E c \in Conns : Terminate(c)
    \/ \E c \in Conns : Delay(c)
    \/ \E c \in Conns : Send(c)
    \/ \E c \in Conns : Exit(c)
    \/ \E c \in Conns : Fail(c)
    \/ \E c \in Conns : Finally(c)
    \/ \E c \in Conns : Close(c)
    \/ \E c \in Conns, chunk \in Chunks : PeerSend(c, chunk)
    \/ \E c \in Conns : PeerClose(c)
    \/ \E g \in Groups, m \in Matches, cmd \in Commands, v \in Values :
          ApiRequest(g, m, cmd, v)

Spec == Init /\ [][Next]_vars

\* One step of the thread that serves connection c.
Session(c) ==
    \/ Register(c) \/ InitStats(c) \/ Loop(c) \/ Parse(c) \/ Refill(c) \/ EofRead(c)
    \/ EofWrite(c) \/ Process(c) \/ Terminate(c) \/ Delay(c) \/ Send(c) \/ Exit(c)
    \/ Fail(c) \/ Finally(c) \/ Close(c)

\* The server and its peer without the web API, every session thread being
\* scheduled again and again; the peer may do nothing at all.
NextLive ==
    \/ \E c \in Conns : Accept(c)
    \/ \E c \in Conns : Register(c)
    \/ \E c \in Conns : InitStats(c)
    \/ \E c \in Conns : Loop(c)
    \/ \E c \in Conns : Parse(c)
    \/ \E c \in Conns : Refill(c)
    \/ \E c \in Conns : EofRead(c)
    \/ \E c \in Conns : EofWrite(c)
    \/ \E c \in Conns : Process(c)
    \/ \E c \in Conns : Terminate(c)
    \/ \E c \in Conns : Delay(c)
    \/ \E c \in Conns : Send(c)
    \/ \E c \in Conns : Exit(c)
    \/ \E c \in Conns : Fail(c)
    \/ \E c \in Conns : Finally(c)
    \/ \E c \in Conns : Close(c)
    \/ \E c \in Conns, chunk \in Chunks : PeerSend(c, chunk)
    \/ \E c \in Conns : PeerClose(c)

SpecLive == Init /\ [][NextLive]_vars /\ \A c \in Conns : WF_vars(Session(c))

\* main() from any command line of up to MaxTags tag texts.
ArgLists == SeqsUpTo(TagTexts, MaxTags) \ {<<>>}

InitMain ==
    /\ args \in ArgLists
    /\ ti = 1
    /\ mainpc = "tags"
    /\ tags = <<>>
    /\ apiLeft = MaxApi
    /\ SrvInit

NextMain == CreateTag \/ StartServer

SpecMain == InitMain /\ [][NextMain]_vars

\* The server, its peer, and a web API that writes zero to the session's
\* counters.
Counters == {"requests", "received", "processed"}

NextStats ==
    \/ NextLive
    \/ \E cmd \in Counters : ApiRequest(<<"connections">>, Star, cmd, "0")

SpecStats == Init /\ [][NextStats]_vars

\* main() from the --delay option on, the thread on delay_range, and the web
\* API writing options.delay.
RangeValues == DelayTexts \cup {NoValue}

InitDelay ==
    /\ args = DefaultArgs
    /\ ti = 1
    /\ mainpc = "delay"
    /\ tags = <<>>
    /\ apiLeft = MaxApi + 1
    /\ SrvInitWith([k \in {<<"delay">>} |-> <<>>])
    /\ mutator = FALSE
    /\ woke = <<>>

NextDelay ==
    \/ \E text \in DelayTexts : MainDelay(text)
    \/ CreateTag
    \/ StartServer
    \/ Wake
    \/ \E cmd \in {"range", "value"}, v \in RangeValues :
          ApiRequest(<<"options">>, <<"delay">>, cmd, v)

SpecDelay == InitDelay /\ [][NextDelay]_vars

\* Two sessions at once, each fed whole frames of no particular content by a
\* peer that may close at any time.
NextTwo ==
    \/ \E c \in AllConns : Accept(c)
    \/ \E c \in AllConns : Register(c)
    \/ \E c \in AllConns : InitStats(c)
    \/ \E c \in AllConns : Loop(c)
    \/ \E c \in AllConns : ParseFrame(c, NoFrame)
    \/ \E c \in AllConns : Parse(c)
    \/ \E c \in AllConns : Refill(c)
    \/ \E c \in AllConns : EofRead(c)
    \/ \E c \in AllConns : EofWrite(c)
    \/ \E c \in AllConns : Process(c)
    \/ \E c \in AllConns : Terminate(c)
    \/ \E c \in AllConns : Delay(c)
    \/ \E c \in AllConns : Send(c)
    \/ \E c \in AllConns : Exit(c)
    \/ \E c \in AllConns : Fail(c)
    \/ \E c \in AllConns : Finally(c)
    \/ \E c \in AllConns : Close(c)
    \/ \E c \in AllConns : PeerClose(c)

SpecTwo == Init /\ [][NextTwo]_vars

\* The web API at work on a server with one session: every group, every kind
\* of field, and texts that do and do not convert.
ApiGroups   == {Star, <<"options">>, <<"connections">>, <<"tags">>}
ApiMatches  == {Star, <<"delay">>, <<"A">>} \cup {connkey(addr(c)) : c \in Conns}
ApiCommands == {NoValue, "get", "GET", "eof", "value", "error", "port", "interface",
                "attribute", "nosuch"}
ApiValues   == {NoValue, "", "0", "1", "-1", "x", "true", "false", "no"}

NextApi ==
    \/ \E c \in Conns : Accept(c)
    \/ \E c \in Conns : Register(c)
    \/ \E c \in Conns : InitStats(c)
    \/ \E c \in Conns : Loop(c)
    \/ \E c \in Conns : Exit(c)
    \/ \E c \in Conns : Finally(c)
    \/ \E c \in Conns : Close(c)
    \/ \E g \in ApiGroups, m \in ApiMatches, cmd \in ApiCommands, v \in ApiValues :
          ApiRequest(g, m, cmd, v)

\* The same server, with one more request to the web API than MaxApi.
InitApi ==
    /\ args = DefaultArgs
    /\ ti = Len(DefaultArgs) + 1
    /\ mainpc = "serving"
    /\ tags = TagsAfter(<<>>, DefaultArgs, 1)
    /\ apiLeft = MaxApi + 1
    /\ SrvInit

SpecApi == InitApi /\ [][NextApi]_vars

\* The server with the tag A=INT[2], two peers sending whole frames, and the
\* web API arming and disarming the tag's error.
CipArgs == << <<"A", "=", "INT", "[", "2", "]">> >>

InitCip ==
    /\ args = CipArgs
    /\ ti = Len(CipArgs) + 1
    /\ mainpc = "serving"
    /\ tags = TagsAfter(<<>>, CipArgs, 1)
    /\ apiLeft = MaxApi + 1
    /\ SrvInit

NextCip ==
    \/ \E c \in AllConns : Accept(c)
    \/ \E c \in AllConns : Register(c)
    \/ \E c \in AllConns : InitStats(c)
    \/ \E c \in AllConns : Loop(c)
    \/ \E c \in AllConns : \E frame \in PeerFrames(c) : ParseFrame(c, frame)
    \/ \E c \in AllConns : Process(c)
    \/ \E c \in AllConns : Delay(c)
    \/ \E c \in AllConns : Send(c)
    \/ \E v \in {"0", "1"} : ApiRequest(<<"tags">>, <<"A">>, "error", v)

SpecCip == InitCip /\ [][NextCip]_vars

\* =================================================================== claims
Key1 == <<"127", "_", "0", "_", "0", "_", "1", "_", "5001">>

Serving == {"init", "loop", "parse", "refill", "eofread", "eofwrite", "process",
            "terminate", "delay", "send", "exit", "fail", "finally"}

\* C1: from its registration until its finally block the session's stats are in
\* the connections map under '<ip>_<port>' with the dots replaced by
\* underscores; once the session has ended, by whatever path, the map has no
\* entry under that key and the socket is closed.
C1_ConnectionsEntry ==
    /\ pc["c1"] \in Serving => Key1 \in DOMAIN connections /\ connections[Key1] = "c1"
    /\ pc["c1"] = "done" => Key1 \notin DOMAIN connections /\ sockClosed["c1"]

\* A session that ended on an exception, with its entry gone.
C1_Witness == pc["c1"] = "done" /\ raised["c1"] /\ nparsed["c1"] > 0

\* C2 (as claimed): once the control plane has set eof to true, the session
\* starts no further socket read and enters no further turn of the loop: at
\* the refill test and at the loop test it still finds eof true.
C2_KillHonoured ==
    \A c \in Conns : killed[c] /\ pc[c] \in {"loop", "refill"} => stats[c].eof

\* The next frame is being parsed, or has been parsed and awaits processing.
NextInHand(c) ==
    /\ pc[c] \in {"parse", "refill", "eofread", "eofwrite", "process"}
    /\ pos[c] > 0 \/ hasRequest[c]

Replied(c, k) == \E i \in DOMAIN out[c] : out[c][i].req = k

\* C3 (as claimed): replies go out in request order, none for a request not
\* yet processed, and the reply to request k has been sent before request k+1
\* is parsed or processed.
C3_InOrder ==
    \A c \in Conns :
        /\ \A i \in DOMAIN out[c] :
              /\ out[c][i].req \in 1..nparsed[c]
              /\ i > 1 => out[c][i - 1].req < out[c][i].req
        /\ NextInHand(c) /\ nparsed[c] >= 1 => Replied(c, nparsed[c])

\* C4 (as claimed): once enip_process has returned False for a parsed request,
\* no reply is sent for it and the session parses and processes nothing more:
\* it is on its way out of the loop.
C4_EndedClosed ==
    \A c \in Conns :
        ended[c] > 0 =>
            /\ ~Replied(c, ended[c])
            /\ nparsed[c] = ended[c]
            /\ pc[c] \in {"loop", "exit", "finally", "close", "done"}

\* C5: after an EOF in the middle of a frame no reply is sent, the session
\* goes only to the parse failure, the failure is raised, and the connection
\* is closed and its entry removed.
C5_MidFrameEof ==
    \A c \in Conns :
        eofAt[c].kind = "mid" =>
            /\ Len(out[c]) = eofAt[c].out
            /\ pc[c] \in {"eofread", "eofwrite", "parse", "fail", "finally", "close", "done"}
            /\ pc[c] \in {"finally", "close", "done"} => raised[c]
            /\ pc[c] = "done" => sockClosed[c] /\ Key1 \notin DOMAIN connections

C5_Witness ==
    \E c \in Conns : eofAt[c].kind = "mid" /\ pc[c] = "done" /\ sourceSent[c] > 0

\* C6 (as claimed): after an EOF at a frame boundary the session ends with
\* nothing sent, nothing raised, no request counted, and enip_process called
\* exactly once with empty data.
C6_CleanEofOnce ==
    \A c \in Conns :
        eofAt[c].kind = "clean" /\ pc[c] = "done" =>
            /\ Len(out[c]) = eofAt[c].out
            /\ ~raised[c]
            /\ nparsed[c] = eofAt[c].requests
            /\ nEmpty[c] = eofAt[c].empties + 1

\* C6 (amended): ... and enip_process is called with empty data at least once,
\* and exactly once when the control plane has not written eof back to false
\* after the EOF was read.
C6_CleanEof ==
    \A c \in Conns :
        eofAt[c].kind = "clean" /\ pc[c] = "done" =>
            /\ Len(out[c]) = eofAt[c].out
            /\ ~raised[c]
            /\ nparsed[c] = eofAt[c].requests
            /\ nEmpty[c] >= eofAt[c].empties + 1
            /\ ~eofAt[c].reset => nEmpty[c] = eofAt[c].empties + 1

C6_Witness ==
    \E c \in Conns : eofAt[c].kind = "clean" /\ pc[c] = "done" /\ nparsed[c] > 0

\* C7: a delay that sleep refuses is ignored: the step from the delay goes to
\* the send, with nothing slept.
C7_InvalidDelayIgnored ==
    [][\A c \in Conns :
          pc[c] = "delay" /\ pc'[c] # "delay" /\ options[<<"delay">>].value < 0
              => pc'[c] = "send" /\ slept'[c] = <<>>]_vars

\* A reply sent after a refused delay, and a later request served.
C7_Witness ==
    \E c \in Conns :
        /\ Len(out[c]) = 2
        /\ out[c][1].seconds < 0
        /\ out[c][1].slept = <<>>

Cap == MaxChunk

\* The machine has stopped on a symbol it does not accept: its next step is
\* the parse failure.
Stalled(c) ==
    /\ pos[c] > 0
    /\ Accepts(pos[c], buf[c]) = 0
    /\ Peek(buf[c]) \in seen[c]

Duplicate(j) ==
    /\ \A k \in 1..j : ParseTag(args[k]).ok
    /\ \E i \in 1..(j - 1) : ParseTag(args[i]).name = ParseTag(args[j]).name

FirstOf(j) ==
    CHOOSE i \in 1..j :
        /\ ParseTag(args[i]).name = ParseTag(args[j]).name
        /\ \A h \in 1..(i - 1) : ParseTag(args[h]).name # ParseTag(args[j]).name

\* C10 (as claimed): a tag text that names an already created tag stops
\* main(): the loop does not get past it, the server is not started, and the
\* tag keeps its first definition.
C10_DuplicateFatal ==
    \A j \in 1..Len(args) :
        Duplicate(j) =>
            /\ ti <= j
            /\ mainpc # "serving"
            /\ ti = j => tags[ParseTag(args[j]).name].attribute =
                            Attribute(ParseTag(args[FirstOf(j)]).name,
                                      ParseTag(args[FirstOf(j)]).type,
                                      ParseTag(args[FirstOf(j)]).size)

\* C11 (as claimed): every attribute in the registry has a buffer of at least
\* one element and is a scalar exactly when that buffer has one element, and a
\* tag text whose size is below 1 stops main(): the loop does not get past it
\* and the server is not started.
C11_SizeAtLeastOne ==
    /\ \A n \in DOMAIN tags :
          /\ Len(tags[n].attribute.value) >= 1
          /\ tags[n].attribute.scalar <=> Len(tags[n].attribute.value) = 1
    /\ \A j \in 1..Len(args) :
          ParseTag(args[j]).ok /\ ParseTag(args[j]).size < 1
              => ti <= j /\ mainpc # "serving"

\* How a value is held: a Python bool, a text of the request stored as it
\* came, or anything else (a number, or text kept as tokens).
PyType(v) ==
    IF ToString(v) \in {"TRUE", "FALSE"} THEN "bool"
    ELSE IF ToString(v) \in {ToString(t) : t \in ApiValues} THEN "text"
    ELSE "other"

\* typ( value ) raises: int() and float() of anything but a number, and the
\* constructor of an Attribute given a text alone.
Raises(field, value) ==
    \/ field \in {"value", "error", "port", "requests", "received", "processed"}
          /\ value \notin {"0", "1", "-1"}
    \/ field = "attribute"

\* The dotdicts a request can reach: every option, every session's stats once
\* they are filled in, every tag.
AllTargets ==
    {options[k] : k \in DOMAIN options}
    \cup {stats[c] : c \in {d \in Conns : stats[d] # <<>>}}
    \cup {tags[k] : k \in DOMAIN tags}

\* C12: whatever write the web API is asked for next, setattr leaves every
\* field of the target with a value of the type it had; and where
\* typ( value ) raises for the field named, the target is unchanged and its
\* result, and so the response when this is the only target, reports success
\* false.
C12_WriteCoerces ==
    \A cmd \in ApiCommands, v \in ApiValues :
        ~IsGet(cmd) =>
            /\ \A t \in AllTargets :
                  /\ DOMAIN ApiTarget(t, cmd, v) = DOMAIN t
                  /\ \A f \in DOMAIN t : PyType(ApiTarget(t, cmd, v)[f]) = PyType(t[f])
                  /\ cmd \in DOMAIN t /\ Raises(cmd, v) =>
                        /\ ApiTarget(t, cmd, v) = t
                        /\ TargetResult(t, cmd, v) = <<"success", "False">>
            /\ \A c \in Conns :
                  /\ stats[c] # <<>>
                  /\ connkey(addr(c)) \in DOMAIN connections
                  /\ cmd \in DOMAIN stats[c]
                  /\ Raises(cmd, v)
                  => ApiResult(<<"connections">>, connkey(addr(c)), cmd, v)
                         = <<"success", "False">>
            /\ \A k \in DOMAIN tags :
                  cmd \in DOMAIN tags[k] /\ Raises(cmd, v)
                  => ApiResult(<<"tags">>, k, cmd, v) = <<"success", "False">>

\* Writes that converted their text: a status armed on the tag and the
\* session's eof set.
C12_Witness ==
    /\ apiLeft = 0
    /\ \/ tags[<<"A">>].error = 1
       \/ stats["c1"] # <<>> /\ stats["c1"].eof /\ pc["c1"] = "loop"

\* C18 (as claimed): once a send has failed with a socket error the session
\* processes no further request and neither sends nor prepares a further
\* reply: all that is left to it is to close the connection and remove its
\* entry.
C18_SendFailureEnds ==
    [][\A c \in Conns :
          sendFailed[c] =>
              /\ nparsed'[c] = nparsed[c]
              /\ out'[c] = out[c]
              /\ pc'[c] \notin {"delay", "send"}]_vars

\* The replies sent for request k.
Replies(c, k) == {i \in DOMAIN out[c] : out[c][i].req = k}

\* The requests parsed and the requests handed to the processor are the same
\* requests: every whole frame consumed has been processed once, but for the
\* one that has just been parsed.
ProcessedOnce(c) ==
    CASE pc[c] = "process" /\ hasRequest[c]
            -> sourceSent[c] = FrameLen * (nparsed[c] + 1)
      [] pc[c] \in {"parse", "refill", "eofread", "eofwrite"}
            -> sourceSent[c] = FrameLen * nparsed[c] + pos[c]
      [] pc[c] \in {"process", "loop", "delay", "send", "terminate", "exit"}
            -> sourceSent[c] = FrameLen * nparsed[c]
      [] OTHER -> TRUE

\* What C19 says of every step but the send: a reply leaves only in the send
\* of the reply to the request just processed, once; the send is reached only
\* through the delay, and the delay only when the processor returned True.
RepliesOnlyToRequests(c) ==
    /\ Len(out'[c]) > Len(out[c]) =>
          /\ pc[c] = "send"
          /\ Len(out'[c]) = Len(out[c]) + 1
          /\ SubSeq(out'[c], 1, Len(out[c])) = out[c]
          /\ out'[c][Len(out'[c])].req = nparsed[c]
          /\ hasRequest[c]
          /\ Replies(c, nparsed[c]) = {}
    /\ pc'[c] = "send" /\ pc[c] # "send" => pc[c] = "delay"
    /\ pc'[c] = "delay" /\ pc[c] # "delay" => pc[c] = "process" /\ hasRequest[c]
    /\ pc[c] = "process" /\ hasRequest[c] /\ pc'[c] \in {"loop", "terminate"} =>
          Replies(c, nparsed'[c]) = {} /\ out'[c] = out[c]

\* C19 (as claimed): each parsed request is processed exactly once; when the
\* processor has returned True the send leaves exactly one reply to it; when
\* it returned False or raised nothing is sent; and nothing else is ever sent.
C19_OneReplyEach ==
    [][\A c \in Conns :
          /\ ProcessedOnce(c)
          /\ RepliesOnlyToRequests(c)
          /\ pc[c] = "send" /\ pc'[c] # "send" =>
                \E i \in DOMAIN out'[c] : out'[c][i].req = nparsed[c]]_vars

\* C19 (amended): ... the send leaves exactly one reply to it, unless the send
\* fails with a socket error, which the peer having gone brings about, and
\* then nothing is sent for that request.
C19_OneReplyUnlessSendFails ==
    [][\A c \in Conns :
          /\ ProcessedOnce(c)
          /\ RepliesOnlyToRequests(c)
          /\ pc[c] = "send" /\ pc'[c] # "send" =>
                \/ \E i \in DOMAIN out'[c] : out'[c][i].req = nparsed[c]
                \/ peerClosed[c] /\ sendFailed'[c] /\ out'[c] = out[c]]_vars

\* Two requests: one answered, and one whose reply could not be sent.
C19_Witness ==
    \E c \in Conns :
        /\ nparsed[c] = 2
        /\ Len(out[c]) = 1
        /\ out[c][1].req = 1
        /\ sendFailed[c]
        /\ pc[c] = "done"

\* C20: when the processor has raised on a request (or returned True with no
\* response), nothing is sent for the request, the processor is called once
\* more, with empty data, the exception is raised again and leaves the
\* session through both handlers, and the entry is removed and the socket
\* closed; no reply leaves on the way.
C20_ProcessorRaises ==
    [][\A c \in Conns :
          /\ pc[c] = "process" /\ hasRequest[c] /\ pc'[c] = "terminate" =>
                /\ Replies(c, nparsed'[c]) = {}
                /\ out'[c] = out[c]
          /\ pc[c] = "terminate" /\ pc'[c] # "terminate" =>
                /\ pc'[c] = "fail"
                /\ nEmpty'[c] = nEmpty[c] + 1
                /\ nparsed'[c] = nparsed[c]
                /\ out'[c] = out[c]
          /\ pc[c] = "fail" /\ pc'[c] # "fail" =>
                /\ pc'[c] = "finally"
                /\ raised'[c]
                /\ out'[c] = out[c]
          /\ pc[c] = "finally" /\ pc'[c] # "finally" =>
                /\ pc'[c] = "close"
                /\ connkey(addr(c)) \notin DOMAIN connections'
                /\ out'[c] = out[c]
          /\ pc[c] = "close" /\ pc'[c] # "close" =>
                /\ pc'[c] = "done"
                /\ sockClosed'[c]
                /\ out'[c] = out[c]
          /\ pc[c] = "done" => pc'[c] = "done" /\ out'[c] = out[c]]_vars

\* A session that parsed one whole frame, whose processor raised on it: one
\* call with empty data, no reply, the exception out, the connection closed.
C20_Witness ==
    \E c \in Conns :
        /\ pc[c] = "done"
        /\ raised[c]
        /\ peerBytes[c] = FrameLen
        /\ nparsed[c] = 1
        /\ nEmpty[c] = 1
        /\ out[c] = <<>>
        /\ sockClosed[c]

\* The request of connection c is a service on an attribute of the registry,
\* sent under the session's handle.
Touches(c) ==
    /\ request[c].command = "SendRRData"
    /\ session[c] # 0 /\ request[c].session_handle = session[c]
    /\ request[c].tag \in DOMAIN tags

Buffer(k) == tags[k].attribute.value

\* C13: a tag has error 0 until the web API writes it; a request on an
\* attribute whose error is s # 0, from either session, is answered with CIP
\* status s and no data and changes nothing in the registry; with error 0 (again)
\* a read within the buffer is answered with status 0 and the buffer's elements
\* and a fitting write is stored.
C13_ErrorInjected ==
    [][/\ apiLeft = MaxApi + 1 => \A k \in DOMAIN tags : tags[k].error = 0
       /\ \A c \in AllConns :
             pc[c] = "process" /\ pc'[c] # "process" /\ Touches(c) =>
                 LET rq == request[c]
                     s  == tags[rq.tag].error
                 IN  IF s # 0
                     THEN /\ response'[c].cip_status = s
                          /\ response'[c].data = <<>>
                          /\ tags' = tags
                     ELSE /\ rq.service = "read" /\ rq.elements <= Len(Buffer(rq.tag)) =>
                                /\ response'[c].cip_status = 0
                                /\ response'[c].data = SubSeq(Buffer(rq.tag), 1, rq.elements)
                          /\ rq.service = "write" /\ rq.type = tags[rq.tag].attribute.type
                                /\ Len(rq.data) = rq.elements
                                /\ rq.elements <= Len(Buffer(rq.tag)) =>
                                /\ response'[c].cip_status = 0
                                /\ SubSeq(tags'[rq.tag].attribute.value, 1, rq.elements) = rq.data]_vars

\* One session's write was refused with the armed status and left the buffer
\* alone; the error is 0 again and the other session's read is served.
C13_Witness ==
    /\ pc["c1"] \in {"delay", "send"}
    /\ request["c1"].service = "write"
    /\ response["c1"].status = 0
    /\ response["c1"].cip_status = 1
    /\ pc["c2"] \in {"delay", "send"}
    /\ request["c2"].service = "read"
    /\ response["c2"].status = 0
    /\ response["c2"].cip_status = 0
    /\ response["c2"].data = <<0, 0>>
    /\ tags[<<"A">>].error = 0
    /\ apiLeft = MaxApi - 1

\* The data of the writes the peers send, and a write laid over a buffer.
WriteData == {<<1, 1>>, <<1>>, <<2, 2>>}
Overlay(b, d) == d \o SubSeq(b, Len(d) + 1, Len(b))

\* The buffers that writes made one after the other can leave.
RECURSIVE Serial(_)
Serial(n) ==
    IF n = 0 THEN {<<0, 0>>}
    ELSE Serial(n - 1) \cup {Overlay(b, d) : b \in Serial(n - 1), d \in WriteData}

C15_ContextEchoed ==
    \A c \in AllConns :
        pc[c] \in {"delay", "send"} /\ request[c] # NoFrame =>
            /\ response[c] # NoFrame
            /\ response[c].sender_context = request[c].sender_context

\* A second reply about to be sent, to a request with another context than
\* the first.
C15_Witness ==
    /\ pc["c1"] = "send"
    /\ Len(out["c1"]) = 1
    /\ request["c1"].sender_context = "y"
    /\ response["c1"].sender_context = "y"

C17_WriteThenRead ==
    [][\A c \in AllConns :
          /\ pc[c] = "process" /\ pc'[c] # "process"
          /\ Touches(c)
          /\ request[c].service = "read"
          /\ lastWrite.elements > 0
          /\ lastWrite.tag = request[c].tag
          /\ lastWrite.elements = request[c].elements
          /\ tags[request[c].tag].error = 0
          => /\ response'[c].cip_status = 0
             /\ response'[c].data = lastWrite.data
             /\ Len(response'[c].data) = lastWrite.elements
             /\ response'[c].type = lastWrite.type]_vars

\* The second session wrote the whole buffer and the first one reads it.
C17_Witness ==
    /\ pc["c1"] = "send"
    /\ request["c1"].service = "read"
    /\ request["c1"].elements = 2
    /\ response["c1"].status = 0
    /\ response["c1"].cip_status = 0
    /\ response["c1"].data = <<2, 2>>
    /\ response["c1"].type = "INT"
    /\ lastWrite.elements = 2
    /\ lastWrite.data = <<2, 2>>

\* The machine is in the middle of a frame and has no transition on the
\* symbol that is buffered next.
Unacceptable(c) ==
    /\ pc[c] \in {"parse", "refill"}
    /\ pos[c] > 0
    /\ buf[c] # <<>>
    /\ Accepts(pos[c], buf[c]) = 0

\* C21: once the machine has no transition on a buffered symbol, the session
\* comes to its end by the parse failure, with the exception raised, no
\* further reply sent, its entry removed and the connection closed, whatever
\* the peer does or does not do.
C21_StallEnds ==
    \A c \in Conns : \A n \in 0..MaxBytes :
        (Unacceptable(c) /\ Len(out[c]) = n)
            ~> (/\ pc[c] = "done"
                /\ raised[c]
                /\ sockClosed[c]
                /\ connkey(addr(c)) \notin DOMAIN connections
                /\ Len(out[c]) = n)

\* A session that ended on an unacceptable symbol in its second frame, polled
\* with no timeout, while the peer is still connected.
C21_Witness ==
    \E c \in Conns :
        /\ pc[c] = "done"
        /\ raised[c]
        /\ ~peerClosed[c]
        /\ timeout[c] = 0
        /\ nparsed[c] = 1
        /\ Len(out[c]) = 1

\* The step is neither the peer's nor the web API's: a thread has taken it.
ByThread == peerBytes' = peerBytes /\ peerClosed' = peerClosed /\ apiLeft' = apiLeft

\* C22: bytes are taken from the socket, and a timeout chosen, only in the
\* inner loop, which is entered only when the machine has no transition on
\* what is buffered; a read waits (100 ms) exactly when nothing is buffered
\* and polls (0) when something is; and with something buffered the inner
\* loop is left at once, for the machine to go on or for the message read.
C22_RefillWhenStuck ==
    [][\A c \in Conns :
          /\ (\/ Len(wire'[c]) < Len(wire[c])
              \/ timeout'[c] # timeout[c]
              \/ pc'[c] = "eofread" /\ pc[c] # "eofread")
                => (pc[c] = "refill" /\ ~stats[c].eof /\ Accepts(pos[c], buf[c]) = 0)
          /\ (pc'[c] = "refill" /\ pc[c] # "refill")
                => (pc[c] = "parse" /\ Accepts(pos[c], buf[c]) = 0)
          /\ (ByThread /\ pc[c] = "refill" /\ ~stats[c].eof)
                => (timeout'[c] = IF buf[c] = <<>> THEN 100 ELSE 0)
          /\ (ByThread /\ pc[c] = "refill" /\ buf[c] # <<>>)
                => (pc'[c] \in {"parse", "eofread"})]_vars

\* After a request served from reads that waited, the machine has stopped on
\* a buffered symbol, the socket was polled without waiting, and the machine
\* has the turn again.
C22_Witness ==
    \E c \in Conns :
        /\ pc[c] = "parse"
        /\ nparsed[c] = 1
        /\ buf[c] # <<>>
        /\ Peek(buf[c]) \in seen[c]
        /\ timeout[c] = 0
        /\ stats[c].received = peerBytes[c]

\* The bytes the session has taken from its socket.
Received(c) == peerBytes[c] - Len(wire[c])

\* What C23 says of a state: the counters are the counts, and
\* stats.processed, once the session is on its way out, is set and is at most
\* stats.received.
CountersTrue(c) ==
    stats[c] # <<>> =>
        /\ stats[c].requests = nparsed[c]
        /\ stats[c].received = Received(c)
        /\ pc[c] \in {"finally", "close", "done"} =>
              /\ "processed" \in DOMAIN stats[c]
              /\ stats[c].processed <= stats[c].received

Entry(c) ==
    IF connkey(addr(c)) \in DOMAIN connections
    THEN {connections[connkey(addr(c))]} ELSE {}

\* Nothing of the thread of connection d has moved in the step.
Still(d) ==
    /\ pc'[d] = pc[d] /\ buf'[d] = buf[d] /\ pos'[d] = pos[d] /\ seen'[d] = seen[d]
    /\ msg'[d] = msg[d] /\ eofRead'[d] = eofRead[d] /\ eof'[d] = eof[d]
    /\ sourceSent'[d] = sourceSent[d] /\ hasRequest'[d] = hasRequest[d]
    /\ timeout'[d] = timeout[d] /\ out'[d] = out[d] /\ sockClosed'[d] = sockClosed[d]

\* C24: a step of a thread that changes the stats of a connection, or puts
\* its entry into the connections map or takes it out, is a step of that
\* connection's own thread: no other thread has moved.
C24_OwnStatsOnly ==
    [][\A c \in AllConns :
          (ByThread /\ (stats'[c] # stats[c] \/ Entry(c)' # Entry(c))) =>
              /\ ~Still(c)
              /\ \A d \in AllConns \ {c} : Still(d)]_vars

\* One session has ended and its entry is gone, while the other, which began
\* before that, is in the map with its own count.
C24_Witness ==
    /\ pc["c1"] = "done"
    /\ stats["c1"].requests = 2
    /\ Entry("c1") = {}
    /\ Entry("c2") = {"c2"}
    /\ pc["c2"] = "send"
    /\ stats["c2"].requests = 1
    /\ stats["c2"].port = 5002

\* options.delay
TheDelay == options[<<"delay">>]

\* C25: a start with a range leaves the value 0.0 and the mutator running,
\* and every wake-up that finds a range 'lo-hi' in delay.range as it is then
\* sets the value between that lo and that hi; a start with a number leaves
\* no mutator, no wake-up follows, and the value changes only in a step of
\* the web API.
C25_DelayRange ==
    [][/\ (mainpc = "delay" /\ mainpc' = "tags") =>
             IF "range" \in DOMAIN TheDelay'
             THEN TheDelay'.value = 0 /\ mutator' /\ Has(Chars(TheDelay'.range[1]), "-")
             ELSE ~mutator'
       /\ (woke' # woke /\ RangeOk(TheDelay.range)) =>
             /\ woke'[Len(woke')].range = TheDelay.range
             /\ TheDelay'.value >= Min(Lo(TheDelay.range), Hi(TheDelay.range))
             /\ TheDelay'.value <= -Min(-Lo(TheDelay.range), -Hi(TheDelay.range))
             /\ TheDelay'.range = TheDelay.range
       /\ ("value" \in DOMAIN TheDelay /\ "range" \notin DOMAIN TheDelay) =>
             /\ ~mutator /\ ~mutator'
             /\ woke' = woke
             /\ "range" \notin DOMAIN TheDelay'
             /\ (TheDelay'.value # TheDelay.value => apiLeft' < apiLeft)]_vars

\* The server was started with the range 2-1, a wake-up set the value from
\* it, the web API replaced the range by 0-2, and the next wake-up set the
\* value 0, which only the new range holds.
C25_Witness ==
    /\ mainpc = "serving"
    /\ mutator
    /\ Len(woke) = 2
    /\ woke[1] = [range |-> <<"2-1">>, did |-> "set"]
    /\ woke[2] = [range |-> <<"0-2">>, did |-> "set"]
    /\ TheDelay = [range |-> <<"0-2">>, value |-> 0]

\* C26: a wake-up that finds in delay.range a text that is not 'lo-hi' leaves
\* options.delay as it was, and the mutator runs on; a wake-up after such a
\* failure that finds a range 'lo-hi' sets the value from it.
C26_BadRangeSkipped ==
    [][woke' # woke =>
          /\ mutator /\ mutator'
          /\ ~RangeOk(TheDelay.range) =>
                /\ TheDelay' = TheDelay
                /\ woke'[Len(woke')].did = "failed"
          /\ (RangeOk(TheDelay.range) /\ \E i \in DOMAIN woke : woke[i].did = "failed") =>
                /\ woke'[Len(woke')].did = "set"
                /\ TheDelay'.value \in uniform(Lo(TheDelay.range), Hi(TheDelay.range))]_vars

\* A wake-up failed on the range x-1 the server was started with, the web API
\* then wrote the range 0-2, and the next wake-up set the value from it.
C26_Witness ==
    /\ mutator
    /\ Len(woke) = 2
    /\ woke[1] = [range |-> <<"x-1">>, did |-> "failed"]
    /\ woke[2] = [range |-> <<"0-2">>, did |-> "set"]
    /\ TheDelay = [range |-> <<"0-2">>, value |-> 2]

\* C27 (as claimed): whatever text the web API writes next to the eof of a
\* live session, 'true' and any number but zero store True, and 'false', 'no'
\* and '0' store False, so that those three do not end the session.
C27_BoolTexts ==
    \A c \in Conns :
        stats[c] # <<>> =>
            /\ \A v \in {"true", "1", "-1"} : ApiTarget(stats[c], "eof", v).eof = TRUE
            /\ \A v \in {"false", "no", "0"} : ApiTarget(stats[c], "eof", v).eof = FALSE

Globbed(name, pattern) == pattern = Star \/ pattern = name

\* The fields of dotdict a that differ in dotdict b.
Differ(a, b) == {f \in DOMAIN a \cup DOMAIN b :
                    f \notin DOMAIN a \/ f \notin DOMAIN b \/ a[f] # b[f]}

\* C29: whatever request the web API is asked for next, a get leaves options,
\* the sessions' stats and tags as they are; any other command leaves every
\* target whose group or name is not under the request's patterns as it is,
\* and changes no field of any target but the one it names. No request
\* touches the connections map itself.
C29_OnlyNamedField ==
    \A g \in ApiGroups, m \in ApiMatches, cmd \in ApiCommands, v \in ApiValues :
        /\ IsGet(cmd) =>
              /\ ApiOptions(g, m, cmd, v) = options
              /\ ApiStats(g, m, cmd, v) = stats
              /\ ApiTags(g, m, cmd, v) = tags
        /\ \A k \in DOMAIN options :
              /\ Differ(options[k], ApiOptions(g, m, cmd, v)[k]) \subseteq {cmd}
              /\ ~(Globbed(<<"options">>, g) /\ Globbed(k, m)) =>
                    ApiOptions(g, m, cmd, v)[k] = options[k]
        /\ \A c \in AllConns :
              /\ Differ(stats[c], ApiStats(g, m, cmd, v)[c]) \subseteq {cmd}
              /\ ~(/\ Globbed(<<"connections">>, g)
                   /\ connkey(addr(c)) \in DOMAIN connections
                   /\ Globbed(connkey(addr(c)), m)) =>
                    ApiStats(g, m, cmd, v)[c] = stats[c]
        /\ \A k \in DOMAIN tags :
              /\ Differ(tags[k], ApiTags(g, m, cmd, v)[k]) \subseteq {cmd}
              /\ ~(Globbed(<<"tags">>, g) /\ Globbed(k, m)) =>
                    ApiTags(g, m, cmd, v)[k] = tags[k]

\* Two writes have each changed the one field they named, on the one target
\* they named: the tag's status and the option's value, with the live
\* session between them untouched.
C29_Witness ==
    /\ apiLeft = 0
    /\ tags[<<"A">>].error = 1
    /\ options[<<"delay">>].value = -1
    /\ pc["c1"] = "loop"
    /\ stats["c1"] # <<>>
    /\ stats["c1"].eof = FALSE
    /\ stats["c1"].port = 5001

\* C30 (as claimed): a session whose connection is closed, and whose
\* processor never returned False for a request, has had its processor
\* invoked with empty data.
C30_TerminationNotice ==
    \A c \in Conns :
        sockClosed[c] /\ ended[c] = 0 => nEmpty[c] >= 1

====
